---- MODULE Spec2Model ----
(***************************************************************************)
(* PolkaToken: the PspCoin ledger of src/lib.rs (ink! contract, PSP22      *)
(* core + metadata + mintable + burnable).                                 *)
(*                                                                         *)
(* Every message is modelled as the Rust method runs on the storage        *)
(* struct: a Mapping::insert writes storage at once, and an early `return  *)
(* Err(..)` or a `?` leaves the writes made before it in place.  This is   *)
(* what a caller of the method (and an #[ink::test]) observes.             *)
(*                                                                         *)
(* Mapping<K, u128> is only ever read with get(k).unwrap_or(0), so a       *)
(* mapping is modelled by the function it denotes, an absent key reading 0.*)
(* u128 is scaled down to 0..MaxAmount; checked_add / checked_sub keep     *)
(* their Option result.                                                    *)
(*                                                                         *)
(* No method of src/lib.rs calls env().emit_event: `events` starts empty   *)
(* and no message appends to it.                                           *)
(***************************************************************************)
EXTENDS Integers, Sequences, FiniteSets, TLC

\* u128::MAX, scaled down
MaxAmount == 2

Amount == 0..MaxAmount

\* AccountId values that call the contract
Accounts == {"alice", "bob", "charlie"}

VARIABLES
    total_supply,   \* PspCoin.total_supply
    balances,       \* PspCoin.balances
    allowances,     \* PspCoin.allowances, keyed by <<owner, spender>>
    name,           \* PspCoin.name
    symbol,         \* PspCoin.symbol
    decimals,       \* PspCoin.decimals
    returned,       \* the call whose result is on its way to the caller, or NoCall
    events,         \* the events emitted so far (env().emit_event), in order
    token,          \* Caller.token: the ledger the facade forwards to
    spending        \* history of the calls on the watched (owner, spender) pair

vars == <<total_supply, balances, allowances, name, symbol, decimals, returned,
          events, token, spending>>

metadata == <<name, symbol, decimals>>

----------------------------------------------------------------------------
\* PSP22Error and Result<(), PSP22Error>

Ok == "Ok"

InsufficientBalance == "InsufficientBalance"

InsufficientAllowance == "InsufficientAllowance"

Custom(s) == "Custom:" \o s

\* Option<u128>
None == <<>>

Some(x) == <<x>>

unwrap(o) == o[1]

\* u128::checked_add
checked_add(a, b) == IF a + b > MaxAmount THEN None ELSE Some(a + b)

\* u128::checked_sub
checked_sub(a, b) == IF a < b THEN None ELSE Some(a - b)

\* Mapping::default()
EmptyBalances == [a \in Accounts |-> 0]

EmptyAllowances == [p \in Accounts \X Accounts |-> 0]

----------------------------------------------------------------------------
\* Queries

balance_of(owner) == balances[owner]

allowance(owner, spender) == allowances[<<owner, spender>>]

\* a finished call: the message, whether transfer_from took the allowance
\* branch (line 95), the source line of the return reached, the result
Call(op, delegated, ret, result) ==
    [op |-> op, delegated |-> delegated, ret |-> ret, result |-> result]

\* no call is running and no result is pending: the next message may be sent
NoCall == [op |-> "", delegated |-> FALSE, ret |-> 0, result |-> ""]

----------------------------------------------------------------------------
\* Constructors

new ==
    /\ total_supply = 0
    /\ balances = EmptyBalances
    /\ allowances = EmptyAllowances
    /\ name = "PolkaToken"
    /\ symbol = "PLKT"
    /\ decimals = 18
    /\ events = <<>>
    /\ returned = Call("new", FALSE, 37, Ok)

\* new_with_supply without the insert of line 51
new_with_supply_NoBalance(caller, supply, n, s) ==
    /\ total_supply = supply
    /\ balances = EmptyBalances
    /\ allowances = EmptyAllowances
    /\ name = n
    /\ symbol = s
    /\ decimals = 18
    /\ events = <<>>
    /\ returned = Call("new_with_supply", FALSE, 53, Ok)

new_with_supply(caller, supply, n, s) ==
    /\ total_supply = supply
    /\ balances = [EmptyBalances EXCEPT ![caller] = supply]
    /\ allowances = EmptyAllowances
    /\ name = n
    /\ symbol = s
    /\ decimals = 18
    /\ events = <<>>
    /\ returned = Call("new_with_supply", FALSE, 53, Ok)

\* the address the ledger is deployed at
LedgerAddress == "ledger"

\* Address::from([0u8; 20])
ZeroAddress == "0x0000000000000000000000000000000000000000"

\* Caller::new(token), src/contracts/caller/lib.rs
Caller_new(t) == token = t

\* History of one (owner, spender) pair, kept beside the contract's storage:
\* whether the owner has called approve(spender, _), and since the most
\* recent such call the value approved plus the deltas of the owner's
\* successful increase_allowance calls (granted) and the sum of the amounts of
\* the spender's successful transfer_from calls (spent).  The contract does
\* not read it.
WatchedOwner == "alice"

WatchedSpender == "bob"

NoSpending == [approved |-> FALSE, granted |-> 0, spent |-> 0]

Init ==
    /\ \/ new
       \/ \E caller \in Accounts, supply \in Amount :
              new_with_supply(caller, supply, "PolkaToken", "PLKT")
    /\ Caller_new(LedgerAddress)
    /\ spending = NoSpending

----------------------------------------------------------------------------
\* Internal helper: the result, the return reached and the balances it leaves

\* _transfer with the credit of the recipient (lines 226-228) left out
_transfer_NoCredit(from, to, value) ==
    IF from = to \/ value = 0
    THEN [result |-> Ok, ret |-> 216, balances |-> balances]
    ELSE
    IF balances[from] < value
    THEN [result |-> InsufficientBalance, ret |-> 221, balances |-> balances]
    ELSE [result |-> Ok, ret |-> 230,
          balances |-> [balances EXCEPT ![from] = @ - value]]

\* _transfer with the balance comparison of line 220 left out
_transfer_NoBalanceCheck(from, to, value) ==
    IF from = to \/ value = 0
    THEN [result |-> Ok, ret |-> 216, balances |-> balances]
    ELSE
    LET new_from_balance == checked_sub(balances[from], value) IN
    IF new_from_balance = None
    THEN [result |-> Custom("arithmetic underflow"), ret |-> 224,
          balances |-> balances]
    ELSE [result |-> Ok, ret |-> 230,
          balances |-> [balances EXCEPT ![from] = unwrap(new_from_balance),
                                        ![to] = @ + value]]

\* _transfer with `<=` for the `<` of line 220
_transfer_OffByOne(from, to, value) ==
    IF from = to \/ value = 0
    THEN [result |-> Ok, ret |-> 216, balances |-> balances]
    ELSE
    IF balances[from] <= value
    THEN [result |-> InsufficientBalance, ret |-> 221, balances |-> balances]
    ELSE [result |-> Ok, ret |-> 230,
          balances |-> [balances EXCEPT ![from] = @ - value, ![to] = @ + value]]

\* _transfer without the early return of lines 215-217
_transfer_NoShortCircuit(from, to, value) ==
    IF balances[from] < value
    THEN [result |-> InsufficientBalance, ret |-> 221, balances |-> balances]
    ELSE
    LET b1 == [balances EXCEPT ![from] = @ - value] IN
    IF b1[to] + value > MaxAmount
    THEN [result |-> Custom("arithmetic overflow"), ret |-> 227, balances |-> b1]
    ELSE [result |-> Ok, ret |-> 230,
          balances |-> [b1 EXCEPT ![to] = @ + value]]

_transfer(from, to, value) ==
    IF from = to \/ value = 0
    THEN [result |-> Ok, ret |-> 216, balances |-> balances]
    ELSE
    LET from_balance == balances[from] IN
    IF from_balance < value
    THEN [result |-> InsufficientBalance, ret |-> 221, balances |-> balances]
    ELSE
    LET new_from_balance == checked_sub(from_balance, value) IN
    IF new_from_balance = None
    THEN [result |-> Custom("arithmetic underflow"), ret |-> 224,
          balances |-> balances]
    ELSE
    LET b1 == [balances EXCEPT ![from] = unwrap(new_from_balance)]
        to_balance == b1[to]
        new_to_balance == checked_add(to_balance, value)
    IN
    IF new_to_balance = None
    THEN [result |-> Custom("arithmetic overflow"), ret |-> 227, balances |-> b1]
    ELSE [result |-> Ok, ret |-> 230,
          balances |-> [b1 EXCEPT ![to] = unwrap(new_to_balance)]]

----------------------------------------------------------------------------
\* Messages

transfer(caller, to, value) ==
    LET from == caller
        r == _transfer(from, to, value)
    IN
    /\ balances' = r.balances
    /\ returned' = Call("transfer", FALSE, r.ret, r.result)
    /\ UNCHANGED <<total_supply, allowances, metadata, events, token>>

\* transfer_from, lines 95-102: the allowance check and write made for a
\* caller other than `from`, before _transfer runs
\* spend_allowance with the comparison of line 97 left out: the allowance
\* is clamped at zero instead of the call being refused
spend_allowance_NoCheck(caller, from, value) ==
    LET allowance_ == allowances[<<from, caller>>] IN
    [result |-> Ok, ret |-> 101,
     allowances |-> [allowances EXCEPT ![<<from, caller>>] =
                        IF allowance_ < value THEN 0 ELSE allowance_ - value]]

\* spend_allowance writing the entry of (caller, from) for that of (from, caller)
spend_allowance_WrongKey(caller, from, value) ==
    LET allowance_ == allowances[<<from, caller>>] IN
    IF allowance_ < value
    THEN [result |-> InsufficientAllowance, ret |-> 98, allowances |-> allowances]
    ELSE [result |-> Ok, ret |-> 101,
          allowances |->
              [allowances EXCEPT ![<<caller, from>>] = allowance_ - value]]

\* spend_allowance without the write of line 101: the allowance is checked
\* and never lowered
spend_allowance_KeepAllowance(caller, from, value) ==
    LET allowance_ == allowances[<<from, caller>>] IN
    IF allowance_ < value
    THEN [result |-> InsufficientAllowance, ret |-> 98, allowances |-> allowances]
    ELSE [result |-> Ok, ret |-> 101, allowances |-> allowances]

spend_allowance(caller, from, value) ==
    LET allowance_ == allowances[<<from, caller>>] IN
    IF allowance_ < value
    THEN [result |-> InsufficientAllowance, ret |-> 98, allowances |-> allowances]
    ELSE
    LET new_allowance == checked_sub(allowance_, value) IN
    IF new_allowance = None
    THEN [result |-> Custom("arithmetic underflow"), ret |-> 100,
          allowances |-> allowances]
    ELSE [result |-> Ok, ret |-> 101,
          allowances |->
              [allowances EXCEPT ![<<from, caller>>] = unwrap(new_allowance)]]

\* transfer_from without the allowance branch of lines 95-102: any caller
\* moves the balance of `from`
transfer_from_NoAllowance(caller, from, to, value) ==
    LET r == _transfer(from, to, value) IN
    /\ balances' = r.balances
    /\ returned' = Call("transfer_from", caller # from, r.ret, r.result)
    /\ UNCHANGED <<total_supply, allowances, metadata, events, token>>

\* transfer_from without the `caller != from` test of line 95: the allowance
\* of (from, from) is checked and spent as any other
transfer_from_AlwaysSpend(caller, from, to, value) ==
    LET a == spend_allowance(caller, from, value) IN
    IF a.result # Ok
    THEN /\ returned' = Call("transfer_from", caller # from, a.ret, a.result)
         /\ UNCHANGED <<total_supply, balances, allowances, metadata, events, token>>
    ELSE
    LET r == _transfer(from, to, value) IN
    /\ allowances' = a.allowances
    /\ balances' = r.balances
    /\ returned' = Call("transfer_from", caller # from, r.ret, r.result)
    /\ UNCHANGED <<total_supply, metadata, events, token>>

\* transfer_from checking the balance of `from` before it spends the allowance
transfer_from_BalanceFirst(caller, from, to, value) ==
    IF balances[from] < value
    THEN /\ returned' = Call("transfer_from", caller # from, 221,
                             InsufficientBalance)
         /\ UNCHANGED <<total_supply, balances, allowances, metadata, events, token>>
    ELSE
    LET a == IF caller # from
             THEN spend_allowance(caller, from, value)
             ELSE [result |-> Ok, ret |-> 102, allowances |-> allowances]
    IN
    IF a.result # Ok
    THEN /\ returned' = Call("transfer_from", caller # from, a.ret, a.result)
         /\ UNCHANGED <<total_supply, balances, allowances, metadata, events, token>>
    ELSE
    LET r == _transfer(from, to, value) IN
    /\ allowances' = a.allowances
    /\ balances' = r.balances
    /\ returned' = Call("transfer_from", caller # from, r.ret, r.result)
    /\ UNCHANGED <<total_supply, metadata, events, token>>

transfer_from(caller, from, to, value) ==
    LET a == IF caller # from
             THEN spend_allowance(caller, from, value)
             ELSE [result |-> Ok, ret |-> 102, allowances |-> allowances]
    IN
    IF a.result # Ok
    THEN /\ returned' = Call("transfer_from", caller # from, a.ret, a.result)
         /\ UNCHANGED <<total_supply, balances, allowances, metadata, events, token>>
    ELSE
    LET r == _transfer(from, to, value) IN
    /\ allowances' = a.allowances
    /\ balances' = r.balances
    /\ returned' = Call("transfer_from", caller # from, r.ret, r.result)
    /\ UNCHANGED <<total_supply, metadata, events, token>>

\* approve adding the value to the allowance instead of setting it
approve_Add(caller, spender, value) ==
    IF caller = spender
    THEN /\ returned' = Call("approve", FALSE, 111, Ok)
         /\ UNCHANGED <<total_supply, balances, allowances, metadata, events, token>>
    ELSE /\ allowances' =
                [allowances EXCEPT ![<<caller, spender>>] =
                    IF @ + value > MaxAmount THEN MaxAmount ELSE @ + value]
         /\ returned' = Call("approve", FALSE, 114, Ok)
         /\ UNCHANGED <<total_supply, balances, metadata, events, token>>

\* approve setting the allowance in both directions
approve_Symmetric(caller, spender, value) ==
    IF caller = spender
    THEN /\ returned' = Call("approve", FALSE, 111, Ok)
         /\ UNCHANGED <<total_supply, balances, allowances, metadata, events, token>>
    ELSE /\ allowances' = [allowances EXCEPT ![<<caller, spender>>] = value,
                                             ![<<spender, caller>>] = value]
         /\ returned' = Call("approve", FALSE, 114, Ok)
         /\ UNCHANGED <<total_supply, balances, metadata, events, token>>

\* approve without the self-approval return of lines 110-112
approve_NoSelfCheck(caller, spender, value) ==
    /\ allowances' = [allowances EXCEPT ![<<caller, spender>>] = value]
    /\ returned' = Call("approve", FALSE, 114, Ok)
    /\ UNCHANGED <<total_supply, balances, metadata, events, token>>

approve(caller, spender, value) ==
    LET owner == caller IN
    IF owner = spender
    THEN /\ returned' = Call("approve", FALSE, 111, Ok)
         /\ UNCHANGED <<total_supply, balances, allowances, metadata, events, token>>
    ELSE /\ allowances' = [allowances EXCEPT ![<<owner, spender>>] = value]
         /\ returned' = Call("approve", FALSE, 114, Ok)
         /\ UNCHANGED <<total_supply, balances, metadata, events, token>>

\* increase_allowance subtracting the delta (clamped at zero)
increase_allowance_Sub(caller, spender, delta_value) ==
    IF caller = spender \/ delta_value = 0
    THEN /\ returned' = Call("increase_allowance", FALSE, 125, Ok)
         /\ UNCHANGED <<total_supply, balances, allowances, metadata, events, token>>
    ELSE /\ allowances' =
                [allowances EXCEPT ![<<caller, spender>>] =
                    IF @ < delta_value THEN 0 ELSE @ - delta_value]
         /\ returned' = Call("increase_allowance", FALSE, 130, Ok)
         /\ UNCHANGED <<total_supply, balances, metadata, events, token>>

\* increase_allowance with a wrapping addition for the checked_add of line 128
increase_allowance_Wrap(caller, spender, delta_value) ==
    IF caller = spender \/ delta_value = 0
    THEN /\ returned' = Call("increase_allowance", FALSE, 125, Ok)
         /\ UNCHANGED <<total_supply, balances, allowances, metadata, events, token>>
    ELSE /\ allowances' =
                [allowances EXCEPT ![<<caller, spender>>] =
                    (@ + delta_value) % (MaxAmount + 1)]
         /\ returned' = Call("increase_allowance", FALSE, 130, Ok)
         /\ UNCHANGED <<total_supply, balances, metadata, events, token>>

increase_allowance(caller, spender, delta_value) ==
    LET owner == caller IN
    IF owner = spender \/ delta_value = 0
    THEN /\ returned' = Call("increase_allowance", FALSE, 125, Ok)
         /\ UNCHANGED <<total_supply, balances, allowances, metadata, events, token>>
    ELSE
    LET current_allowance == allowances[<<owner, spender>>]
        new_allowance == checked_add(current_allowance, delta_value)
    IN
    IF new_allowance = None
    THEN /\ returned' = Call("increase_allowance", FALSE, 128,
                         Custom("arithmetic overflow"))
         /\ UNCHANGED <<total_supply, balances, allowances, metadata, events, token>>
    ELSE /\ allowances' =
                [allowances EXCEPT ![<<owner, spender>>] = unwrap(new_allowance)]
         /\ returned' = Call("increase_allowance", FALSE, 130, Ok)
         /\ UNCHANGED <<total_supply, balances, metadata, events, token>>

\* decrease_allowance clamping at zero instead of refusing (line 144 left out)
decrease_allowance_Saturating(caller, spender, delta_value) ==
    IF caller = spender \/ delta_value = 0
    THEN /\ returned' = Call("decrease_allowance", FALSE, 141, Ok)
         /\ UNCHANGED <<total_supply, balances, allowances, metadata, events, token>>
    ELSE /\ allowances' =
                [allowances EXCEPT ![<<caller, spender>>] =
                    IF @ < delta_value THEN 0 ELSE @ - delta_value]
         /\ returned' = Call("decrease_allowance", FALSE, 149, Ok)
         /\ UNCHANGED <<total_supply, balances, metadata, events, token>>

\* decrease_allowance reading and writing the entry of (spender, caller) for
\* that of (caller, spender)
decrease_allowance_SwappedKey(caller, spender, delta_value) ==
    IF caller = spender \/ delta_value = 0
    THEN /\ returned' = Call("decrease_allowance", FALSE, 141, Ok)
         /\ UNCHANGED <<total_supply, balances, allowances, metadata, events, token>>
    ELSE
    IF allowances[<<spender, caller>>] < delta_value
    THEN /\ returned' = Call("decrease_allowance", FALSE, 145, InsufficientAllowance)
         /\ UNCHANGED <<total_supply, balances, allowances, metadata, events, token>>
    ELSE /\ allowances' =
                [allowances EXCEPT ![<<spender, caller>>] = @ - delta_value]
         /\ returned' = Call("decrease_allowance", FALSE, 149, Ok)
         /\ UNCHANGED <<total_supply, balances, metadata, events, token>>

decrease_allowance(caller, spender, delta_value) ==
    LET owner == caller IN
    IF owner = spender \/ delta_value = 0
    THEN /\ returned' = Call("decrease_allowance", FALSE, 141, Ok)
         /\ UNCHANGED <<total_supply, balances, allowances, metadata, events, token>>
    ELSE
    LET current_allowance == allowances[<<owner, spender>>] IN
    IF current_allowance < delta_value
    THEN /\ returned' = Call("decrease_allowance", FALSE, 145, InsufficientAllowance)
         /\ UNCHANGED <<total_supply, balances, allowances, metadata, events, token>>
    ELSE
    LET new_allowance == checked_sub(current_allowance, delta_value) IN
    IF new_allowance = None
    THEN /\ returned' = Call("decrease_allowance", FALSE, 147,
                         Custom("arithmetic underflow"))
         /\ UNCHANGED <<total_supply, balances, allowances, metadata, events, token>>
    ELSE /\ allowances' =
                [allowances EXCEPT ![<<owner, spender>>] = unwrap(new_allowance)]
         /\ returned' = Call("decrease_allowance", FALSE, 149, Ok)
         /\ UNCHANGED <<total_supply, balances, metadata, events, token>>

\* mint checking the caller's balance only: total_supply is added unchecked
\* and wraps
mint_UncheckedSupply(caller, value) ==
    IF value = 0
    THEN /\ returned' = Call("mint", FALSE, 172, Ok)
         /\ UNCHANGED <<total_supply, balances, allowances, metadata, events, token>>
    ELSE
    LET new_balance == checked_add(balances[caller], value) IN
    IF new_balance = None
    THEN /\ returned' = Call("mint", FALSE, 181, Custom("arithmetic overflow"))
         /\ UNCHANGED <<total_supply, balances, allowances, metadata, events, token>>
    ELSE /\ total_supply' = (total_supply + value) % (MaxAmount + 1)
         /\ balances' = [balances EXCEPT ![caller] = unwrap(new_balance)]
         /\ returned' = Call("mint", FALSE, 184, Ok)
         /\ UNCHANGED <<allowances, metadata, events, token>>

\* mint without the write of total_supply (line 179)
mint_KeepSupply(caller, value) ==
    IF value = 0
    THEN /\ returned' = Call("mint", FALSE, 172, Ok)
         /\ UNCHANGED <<total_supply, balances, allowances, metadata, events, token>>
    ELSE
    IF checked_add(total_supply, value) = None
    THEN /\ returned' = Call("mint", FALSE, 177, Custom("max supply exceeded"))
         /\ UNCHANGED <<total_supply, balances, allowances, metadata, events, token>>
    ELSE
    LET new_balance == checked_add(balances[caller], value) IN
    IF new_balance = None
    THEN /\ returned' = Call("mint", FALSE, 181, Custom("arithmetic overflow"))
         /\ UNCHANGED <<total_supply, balances, allowances, metadata, events, token>>
    ELSE /\ balances' = [balances EXCEPT ![caller] = unwrap(new_balance)]
         /\ returned' = Call("mint", FALSE, 184, Ok)
         /\ UNCHANGED <<total_supply, allowances, metadata, events, token>>

mint(caller, value) ==
    IF value = 0
    THEN /\ returned' = Call("mint", FALSE, 172, Ok)
         /\ UNCHANGED <<total_supply, balances, allowances, metadata, events, token>>
    ELSE
    LET new_supply == checked_add(total_supply, value) IN
    IF new_supply = None
    THEN /\ returned' = Call("mint", FALSE, 177, Custom("max supply exceeded"))
         /\ UNCHANGED <<total_supply, balances, allowances, metadata, events, token>>
    ELSE
    LET balance == balances[caller]
        new_balance == checked_add(balance, value)
    IN
    IF new_balance = None
    THEN /\ total_supply' = unwrap(new_supply)
         /\ returned' = Call("mint", FALSE, 181, Custom("arithmetic overflow"))
         /\ UNCHANGED <<balances, allowances, metadata, events, token>>
    ELSE /\ total_supply' = unwrap(new_supply)
         /\ balances' = [balances EXCEPT ![caller] = unwrap(new_balance)]
         /\ returned' = Call("mint", FALSE, 184, Ok)
         /\ UNCHANGED <<allowances, metadata, events, token>>

\* burn without the update of total_supply (line 203)
burn_KeepSupply(caller, value) ==
    IF value = 0
    THEN /\ returned' = Call("burn", FALSE, 191, Ok)
         /\ UNCHANGED <<total_supply, balances, allowances, metadata, events, token>>
    ELSE
    IF balances[caller] < value
    THEN /\ returned' = Call("burn", FALSE, 198, InsufficientBalance)
         /\ UNCHANGED <<total_supply, balances, allowances, metadata, events, token>>
    ELSE /\ balances' = [balances EXCEPT ![caller] = @ - value]
         /\ returned' = Call("burn", FALSE, 205, Ok)
         /\ UNCHANGED <<total_supply, allowances, metadata, events, token>>

burn(caller, value) ==
    IF value = 0
    THEN /\ returned' = Call("burn", FALSE, 191, Ok)
         /\ UNCHANGED <<total_supply, balances, allowances, metadata, events, token>>
    ELSE
    LET balance == balances[caller] IN
    IF balance < value
    THEN /\ returned' = Call("burn", FALSE, 198, InsufficientBalance)
         /\ UNCHANGED <<total_supply, balances, allowances, metadata, events, token>>
    ELSE
    LET new_balance == checked_sub(balance, value) IN
    IF new_balance = None
    THEN /\ returned' = Call("burn", FALSE, 201, Custom("arithmetic underflow"))
         /\ UNCHANGED <<total_supply, balances, allowances, metadata, events, token>>
    ELSE
    LET new_total == checked_sub(total_supply, value) IN
    IF new_total = None
    THEN /\ balances' = [balances EXCEPT ![caller] = unwrap(new_balance)]
         /\ returned' = Call("burn", FALSE, 203, Custom("arithmetic underflow"))
         /\ UNCHANGED <<total_supply, allowances, metadata, events, token>>
    ELSE /\ balances' = [balances EXCEPT ![caller] = unwrap(new_balance)]
         /\ total_supply' = unwrap(new_total)
         /\ returned' = Call("burn", FALSE, 205, Ok)
         /\ UNCHANGED <<allowances, metadata, events, token>>

----------------------------------------------------------------------------
\* Calls are serialized: a message runs to completion and its result goes
\* back to the caller before the next message is dispatched.  Any account may
\* send any message with any arguments.

Return ==
    /\ returned # NoCall
    /\ returned' = NoCall
    /\ UNCHANGED <<total_supply, balances, allowances, metadata, events, token,
                   spending>>

Transfer ==
    /\ returned = NoCall
    /\ UNCHANGED spending
    /\ \E caller \in Accounts, to \in Accounts, value \in Amount :
           transfer(caller, to, value)

TransferFrom ==
    /\ returned = NoCall
    /\ UNCHANGED spending
    /\ \E caller \in Accounts, from \in Accounts, to \in Accounts,
          value \in Amount :
           transfer_from(caller, from, to, value)

Approve ==
    /\ returned = NoCall
    /\ UNCHANGED spending
    /\ \E caller \in Accounts, spender \in Accounts, value \in Amount :
           approve(caller, spender, value)

IncreaseAllowance ==
    /\ returned = NoCall
    /\ UNCHANGED spending
    /\ \E caller \in Accounts, spender \in Accounts, delta_value \in Amount :
           increase_allowance(caller, spender, delta_value)

DecreaseAllowance ==
    /\ returned = NoCall
    /\ UNCHANGED spending
    /\ \E caller \in Accounts, spender \in Accounts, delta_value \in Amount :
           decrease_allowance(caller, spender, delta_value)

Mint ==
    /\ returned = NoCall
    /\ UNCHANGED spending
    /\ \E caller \in Accounts, value \in Amount : mint(caller, value)

Burn ==
    /\ returned = NoCall
    /\ UNCHANGED spending
    /\ \E caller \in Accounts, value \in Amount : burn(caller, value)

Next ==
    \/ Transfer
    \/ TransferFrom
    \/ Approve
    \/ IncreaseAllowance
    \/ DecreaseAllowance
    \/ Mint
    \/ Burn
    \/ Return

Spec == Init /\ [][Next]_vars

----------------------------------------------------------------------------
\* The facade, src/contracts/caller/lib.rs.  Each token_* message forwards its
\* arguments to the ledger behind `token` with a contract call.  The ledger
\* reads its caller from env().caller() (src/lib.rs:81, 93, 109), and the
\* caller of a call made by the Caller contract is the Caller contract: the
\* account that sent token_* to the facade (origin) is not passed on.  The
\* ledger operations are those modelled above.

\* the account of the deployed Caller contract
CallerAccount == "charlie"

\* the accounts that send messages to the facade
Origins == Accounts \ {CallerAccount}

token_total_supply == total_supply

token_balance_of(owner) == balance_of(owner)

token_allowance(owner, spender) == allowance(owner, spender)

token_transfer(origin, to, value) == transfer(CallerAccount, to, value)

token_approve(origin, spender, value) == approve(CallerAccount, spender, value)

token_transfer_from(origin, from, to, value) ==
    transfer_from(CallerAccount, from, to, value)

get_token_address == ZeroAddress

TokenTransfer ==
    /\ returned = NoCall
    /\ UNCHANGED spending
    /\ \E origin \in Origins, to \in Accounts, value \in Amount :
           token_transfer(origin, to, value)

TokenApprove ==
    /\ returned = NoCall
    /\ UNCHANGED spending
    /\ \E origin \in Origins, spender \in Accounts, value \in Amount :
           token_approve(origin, spender, value)

TokenTransferFrom ==
    /\ returned = NoCall
    /\ UNCHANGED spending
    /\ \E origin \in Origins, from \in Accounts, to \in Accounts,
          value \in Amount :
           token_transfer_from(origin, from, to, value)

\* the ledger called directly and through the facade
FacadeNext ==
    \/ Next
    \/ TokenTransfer
    \/ TokenApprove
    \/ TokenTransferFrom

FacadeSpec == Init /\ [][FacadeNext]_vars

----------------------------------------------------------------------------
\* The ledger with the history of the watched pair recorded: approve,
\* increase_allowance and transfer_from are the messages of Spec, and each
\* call that is the owner's approve(spender, v), the owner's successful
\* increase_allowance(spender, delta) or the spender's successful
\* transfer_from(owner, _, amount) is entered in `spending`.

\* the largest `granted` recorded; an increase_allowance that would pass it
\* is not sent
MaxGranted == 3

ApproveRecorded ==
    /\ returned = NoCall
    /\ \E caller \in Accounts, spender \in Accounts, value \in Amount :
           /\ approve(caller, spender, value)
           /\ spending' =
                 IF caller = WatchedOwner /\ spender = WatchedSpender
                 THEN [approved |-> TRUE, granted |-> value, spent |-> 0]
                 ELSE spending

IncreaseAllowanceRecorded ==
    /\ returned = NoCall
    /\ \E caller \in Accounts, spender \in Accounts, delta_value \in Amount :
           /\ increase_allowance(caller, spender, delta_value)
           /\ spending' =
                 IF /\ spending.approved
                    /\ caller = WatchedOwner /\ spender = WatchedSpender
                    /\ returned'.result = Ok
                 THEN [spending EXCEPT !.granted = @ + delta_value]
                 ELSE spending
           /\ spending'.granted <= MaxGranted

TransferFromRecorded ==
    /\ returned = NoCall
    /\ \E caller \in Accounts, from \in Accounts, to \in Accounts,
          value \in Amount :
           /\ transfer_from(caller, from, to, value)
           /\ spending' =
                 IF /\ spending.approved
                    /\ caller = WatchedSpender /\ from = WatchedOwner
                    /\ returned'.result = Ok
                 THEN [spending EXCEPT !.spent = @ + value]
                 ELSE spending

RecordedNext ==
    \/ Transfer
    \/ TransferFromRecorded
    \/ ApproveRecorded
    \/ IncreaseAllowanceRecorded
    \/ DecreaseAllowance
    \/ Mint
    \/ Burn
    \/ Return

SpendingSpec == Init /\ [][RecordedNext]_vars

----------------------------------------------------------------------------
\* Properties

RECURSIVE SumOver(_, _)
SumOver(f, S) ==
    IF S = {} THEN 0
    ELSE LET x == CHOOSE y \in S : TRUE IN f[x] + SumOver(f, S \ {x})

\* C1 (conservation): in every reachable state, whatever calls succeeded or
\* failed, total_supply() equals the sum of balance_of(a) over all accounts.
C1_Conservation == total_supply = SumOver(balances, Accounts)

\* C1 witness: a transfer has moved value, and the supply is split over two
\* accounts
C1_Witness ==
    /\ returned.op = "transfer"
    /\ returned.ret = 230
    /\ total_supply = MaxAmount
    /\ \E a, b \in Accounts : a # b /\ balances[a] > 0 /\ balances[b] > 0

\* C2 (atomic transfer_from): a transfer_from by a spender (caller # from)
\* whose allowance covers the amount while the balance of `from` does not
\* fails with InsufficientBalance and leaves every allowance and every
\* balance as it was.
C2_TransferFromAtomicOnBalanceFailure ==
    [][returned'.op = "transfer_from" =>
       \A caller, from, to \in Accounts, value \in Amount :
          ( /\ caller # from
            /\ allowance(from, caller) >= value
            /\ balance_of(from) < value
            /\ transfer_from(caller, from, to, value) )
          => /\ returned'.result = InsufficientBalance
             /\ allowances' = allowances
             /\ balances' = balances]_vars

\* C3 (insufficient allowance): a transfer_from by a spender (caller # from)
\* whose allowance is below the amount fails with InsufficientAllowance and
\* leaves the allowances, the balances and the total supply as they were.
C3_TransferFromInsufficientAllowance ==
    [][returned'.op = "transfer_from" =>
       \A caller, from, to \in Accounts, value \in Amount :
          ( /\ caller # from
            /\ allowance(from, caller) < value
            /\ transfer_from(caller, from, to, value) )
          => /\ returned'.result = InsufficientAllowance
             /\ allowances' = allowances
             /\ balances' = balances
             /\ total_supply' = total_supply]_vars

\* C3 witness: a transfer_from was refused for its allowance although an
\* allowance was granted and the owner holds the amount (scenario E)
C3_Witness ==
    /\ returned.op = "transfer_from"
    /\ returned.result = InsufficientAllowance
    /\ \E owner, spender \in Accounts :
          /\ owner # spender
          /\ allowance(owner, spender) = 1
          /\ balance_of(owner) = MaxAmount

\* C4 as stated: a transfer(to, amount) by a caller holding less than amount
\* fails with InsufficientBalance and changes no balance, no allowance and not
\* the total supply.
C4_TransferInsufficientBalance_AsStated ==
    [][returned'.op = "transfer" =>
       \A caller, to \in Accounts, value \in Amount :
          ( /\ balance_of(caller) < value
            /\ transfer(caller, to, value) )
          => /\ returned'.result = InsufficientBalance
             /\ balances' = balances
             /\ allowances' = allowances
             /\ total_supply' = total_supply]_vars

\* C4 (amended): a transfer(to, amount) to an account other than the caller,
\* by a caller holding less than amount, fails with InsufficientBalance and
\* changes no balance, no allowance and not the total supply.
C4_TransferInsufficientBalance ==
    [][returned'.op = "transfer" =>
       \A caller, to \in Accounts, value \in Amount :
          ( /\ to # caller
            /\ balance_of(caller) < value
            /\ transfer(caller, to, value) )
          => /\ returned'.result = InsufficientBalance
             /\ balances' = balances
             /\ allowances' = allowances
             /\ total_supply' = total_supply]_vars

\* C4 witness: a transfer was refused for its balance while value is held
\* (scenario C)
C4_Witness ==
    /\ returned.op = "transfer"
    /\ returned.result = InsufficientBalance
    /\ total_supply > 0

\* C5 (transfer moves exactly amount): a transfer(to, amount) with
\* caller # to, amount > 0 and balance_of(caller) >= amount succeeds, takes
\* amount from the caller, gives amount to `to`, and changes no other balance,
\* no allowance and not the total supply.
C5_TransferMoves ==
    [][returned'.op = "transfer" =>
       \A caller, to \in Accounts, value \in Amount :
          ( /\ caller # to
            /\ value > 0
            /\ balance_of(caller) >= value
            /\ transfer(caller, to, value) )
          => /\ returned'.result = Ok
             /\ balances' = [balances EXCEPT ![caller] = @ - value,
                                             ![to] = @ + value]
             /\ allowances' = allowances
             /\ total_supply' = total_supply]_vars

\* C5 witness: a transfer has moved value and left the sender a remainder
C5_Witness ==
    /\ returned.op = "transfer"
    /\ returned.ret = 230
    /\ \E a, b \in Accounts : a # b /\ balances[a] = 1 /\ balances[b] = 1

\* C6 (delegated transfer): a successful transfer_from(from, to, amount) by a
\* spender other than `from` lowers allowance(from, spender) by exactly
\* amount and, for from # to, moves amount from `from` to `to`.
C6_TransferFromSpends ==
    [][(returned'.op = "transfer_from" /\ returned'.result = Ok) =>
       \A caller, from, to \in Accounts, value \in Amount :
          ( /\ caller # from
            /\ transfer_from(caller, from, to, value) )
          => /\ allowance(from, caller)' = allowance(from, caller) - value
             /\ from # to =>
                   /\ balance_of(from)' = balance_of(from) - value
                   /\ balance_of(to)' = balance_of(to) + value]_vars

\* C6 witness: a spender has moved value and keeps a rest of the allowance
\* (scenario D)
C6_Witness ==
    /\ returned.op = "transfer_from"
    /\ returned.delegated
    /\ returned.ret = 230
    /\ \E owner, spender \in Accounts :
          owner # spender /\ allowance(owner, spender) = 1

\* C7 (approve sets): after approve(spender, v) by an owner other than the
\* spender, allowance(owner, spender) is v, whatever it was before.
C7_ApproveSets ==
    [][returned'.op = "approve" =>
       \A caller, spender \in Accounts, value \in Amount :
          ( /\ caller # spender
            /\ approve(caller, spender, value) )
          => allowance(caller, spender)' = value]_vars

\* C7 witness: an approve has returned and a nonzero allowance stands
C7_Witness ==
    /\ returned.op = "approve"
    /\ returned.ret = 114
    /\ \E owner, spender \in Accounts : allowance(owner, spender) = MaxAmount

\* C8 as stated (I4): whenever a step lowers allowance(owner, spender), the
\* step is a transfer_from called by that spender with from = owner, and the
\* allowance falls by the amount transferred.
C8_AllowanceDecrease_AsStated ==
    [][allowances' # allowances =>
       \A owner, spender \in Accounts :
          allowance(owner, spender)' < allowance(owner, spender)
          => \E to \in Accounts, value \in Amount :
                /\ transfer_from(spender, owner, to, value)
                /\ value = allowance(owner, spender) - allowance(owner, spender)']_vars

\* C8 (amended): whenever a step lowers allowance(owner, spender), the step is
\* a transfer_from called by that spender with from = owner (the allowance
\* falls by the amount transferred), a decrease_allowance(spender, delta)
\* called by the owner (it falls by delta), or an approve(spender, v) called
\* by the owner (it becomes v).
C8_AllowanceDecrease ==
    [][allowances' # allowances =>
       \A owner, spender \in Accounts :
          allowance(owner, spender)' < allowance(owner, spender)
          => \/ \E to \in Accounts, value \in Amount :
                  /\ transfer_from(spender, owner, to, value)
                  /\ value = allowance(owner, spender) - allowance(owner, spender)'
             \/ \E delta_value \in Amount :
                  /\ decrease_allowance(owner, spender, delta_value)
                  /\ delta_value =
                         allowance(owner, spender) - allowance(owner, spender)'
             \/ \E value \in Amount :
                  /\ approve(owner, spender, value)
                  /\ value = allowance(owner, spender)']_vars

\* C8 witness: a decrease_allowance has lowered an allowance and left a rest
C8_Witness ==
    /\ returned.op = "decrease_allowance"
    /\ returned.ret = 149
    /\ \E owner, spender \in Accounts : allowance(owner, spender) = 1

\* the (owner, spender) pairs other than p
OtherPairs(p) == (Accounts \X Accounts) \ {p}

\* C9 (allowances are per pair): an approve, increase_allowance or
\* decrease_allowance by owner for spender, and a transfer_from by spender
\* with from = owner, leave the allowance of every other pair as it was.
C9_AllowanceFrame ==
    [][allowances' # allowances =>
       \A caller, spender \in Accounts, value \in Amount :
          /\ ( \/ (returned'.op = "approve"
                     /\ approve(caller, spender, value))
               \/ (returned'.op = "increase_allowance"
                     /\ increase_allowance(caller, spender, value))
               \/ (returned'.op = "decrease_allowance"
                     /\ decrease_allowance(caller, spender, value)) )
             => \A p \in OtherPairs(<<caller, spender>>) :
                   allowances'[p] = allowances[p]
          /\ ( /\ returned'.op = "transfer_from"
               /\ \E to \in Accounts :
                     transfer_from(caller, spender, to, value) )
             => \A p \in OtherPairs(<<spender, caller>>) :
                   allowances'[p] = allowances[p]]_vars

\* C9 witness: an approve has returned while another pair holds a different
\* allowance
C9_Witness ==
    /\ returned.op = "approve"
    /\ \E p, q \in Accounts \X Accounts :
          p # q /\ allowances[p] = 1 /\ allowances[q] = MaxAmount

\* C10 (burn): burn(0) succeeds and changes nothing; burn(amount) by a caller
\* holding less than amount fails with InsufficientBalance and changes
\* nothing; otherwise it succeeds, lowers balance_of(caller) and the total
\* supply by amount, and changes no other balance and no allowance.
C10_Burn ==
    [][returned'.op = "burn" =>
       \A caller \in Accounts, value \in Amount :
          burn(caller, value)
          => /\ value = 0 =>
                   /\ returned'.result = Ok
                   /\ UNCHANGED <<total_supply, balances, allowances>>
             /\ (value > 0 /\ balance_of(caller) < value) =>
                   /\ returned'.result = InsufficientBalance
                   /\ UNCHANGED <<total_supply, balances, allowances>>
             /\ (value > 0 /\ balance_of(caller) >= value) =>
                   /\ returned'.result = Ok
                   /\ balances' = [balances EXCEPT ![caller] = @ - value]
                   /\ total_supply' = total_supply - value
                   /\ allowances' = allowances]_vars

\* C10 witness: a burn has destroyed value and value remains
C10_Witness ==
    /\ returned.op = "burn"
    /\ returned.ret = 205
    /\ total_supply = 1

\* the results that report an arithmetic overflow
OverflowErrors ==
    {Custom("max supply exceeded"), Custom("arithmetic overflow")}

\* C11 (mint): a mint(amount) by any caller succeeds and raises the total
\* supply and the caller's balance by amount when total_supply + amount fits
\* the amount width; otherwise it fails with an overflow error and leaves the
\* total supply and every balance as they were.
C11_Mint ==
    [][returned'.op = "mint" =>
       \A caller \in Accounts, value \in Amount :
          mint(caller, value)
          => IF total_supply + value <= MaxAmount
             THEN /\ returned'.result = Ok
                  /\ total_supply' = total_supply + value
                  /\ balances' = [balances EXCEPT ![caller] = @ + value]
             ELSE /\ returned'.result \in OverflowErrors
                  /\ total_supply' = total_supply
                  /\ balances' = balances]_vars

\* C11 witness: a mint was refused because the supply would overflow
C11_Witness ==
    /\ returned.op = "mint"
    /\ returned.result \in OverflowErrors
    /\ total_supply > 0

\* C12 (decrease_allowance): a decrease_allowance(spender, delta) by an owner
\* other than the spender, with delta > 0, fails with InsufficientAllowance
\* and leaves the allowance as it was when the allowance is below delta;
\* otherwise it succeeds and lowers the allowance by delta.  No balance and
\* not the total supply changes in either case.
C12_DecreaseAllowance ==
    [][returned'.op = "decrease_allowance" =>
       \A caller, spender \in Accounts, delta_value \in Amount :
          ( /\ caller # spender
            /\ delta_value > 0
            /\ decrease_allowance(caller, spender, delta_value) )
          => /\ IF allowance(caller, spender) < delta_value
                THEN /\ returned'.result = InsufficientAllowance
                     /\ allowance(caller, spender)' = allowance(caller, spender)
                ELSE /\ returned'.result = Ok
                     /\ allowance(caller, spender)' =
                            allowance(caller, spender) - delta_value
             /\ balances' = balances
             /\ total_supply' = total_supply]_vars

\* C12 witness: a decrease_allowance was refused while an allowance stands
C12_Witness ==
    /\ returned.op = "decrease_allowance"
    /\ returned.result = InsufficientAllowance
    /\ \E owner, spender \in Accounts : allowance(owner, spender) = 1

\* C13 (increase_allowance): an increase_allowance(spender, delta) by an owner
\* other than the spender raises the allowance by delta when the sum fits the
\* amount width; otherwise it fails with an overflow error and leaves the
\* allowance as it was.
C13_IncreaseAllowance ==
    [][returned'.op = "increase_allowance" =>
       \A caller, spender \in Accounts, delta_value \in Amount :
          ( /\ caller # spender
            /\ increase_allowance(caller, spender, delta_value) )
          => IF allowance(caller, spender) + delta_value <= MaxAmount
             THEN /\ returned'.result = Ok
                  /\ allowance(caller, spender)' =
                         allowance(caller, spender) + delta_value
             ELSE /\ returned'.result \in OverflowErrors
                  /\ allowance(caller, spender)' = allowance(caller, spender)]_vars

\* C13 witness: an increase_allowance was refused for overflow and the
\* allowance stands at the maximum
C13_Witness ==
    /\ returned.op = "increase_allowance"
    /\ returned.result \in OverflowErrors
    /\ \E owner, spender \in Accounts : allowance(owner, spender) = MaxAmount

\* the events of the ledger's event sequence
TransferEvent(from, to, value) ==
    [event |-> "Transfer", from |-> from, to |-> to, value |-> value]

ApprovalEvent(owner, spender, value) ==
    [event |-> "Approval", owner |-> owner, spender |-> spender, value |-> value]

\* C14 (Transfer events): every successful transfer or transfer_from appends
\* exactly one Transfer event (Some(source), Some(destination), amount) to the
\* event sequence, and every failing one appends none.
C14_TransferEvents ==
    [][returned'.op \in {"transfer", "transfer_from"} =>
       \A caller, from, to \in Accounts, value \in Amount :
          ( \/ (from = caller /\ transfer(caller, to, value))
            \/ transfer_from(caller, from, to, value) )
          => IF returned'.result = Ok
             THEN events' =
                     Append(events, TransferEvent(Some(from), Some(to), value))
             ELSE events' = events]_vars

\* C15 (Approval events): every successful approve(spender, amount) by owner
\* appends exactly one Approval event (owner, spender, amount) to the event
\* sequence.
C15_ApprovalEvents ==
    [][returned'.op = "approve" =>
       \A caller, spender \in Accounts, value \in Amount :
          ( /\ approve(caller, spender, value)
            /\ returned'.result = Ok )
          => events' = Append(events, ApprovalEvent(caller, spender, value))]_vars

\* C16 (initial state): right after new_with_supply(S) by creator A, the total
\* supply is S, A holds S, every other balance is 0 and every allowance is 0;
\* right after new(), the total supply, every balance and every allowance
\* are 0.
C16_InitialState ==
    /\ returned.op = "new_with_supply" =>
          /\ \E creator \in Accounts :
                /\ balance_of(creator) = total_supply
                /\ \A b \in Accounts \ {creator} : balance_of(b) = 0
          /\ \A o, sp \in Accounts : allowance(o, sp) = 0
    /\ returned.op = "new" =>
          /\ total_supply = 0
          /\ \A a \in Accounts : balance_of(a) = 0
          /\ \A o, sp \in Accounts : allowance(o, sp) = 0

\* C16 witness: the ledger was just created with the whole amount range as
\* its supply
C16_Witness ==
    /\ returned.op = "new_with_supply"
    /\ total_supply = MaxAmount

\* C17 (issuance event): right after the ledger is created with supply S for
\* creator A, the event sequence is exactly one Transfer event with no
\* source, destination A and amount S.
C17_IssuanceEvent ==
    returned.op = "new_with_supply" =>
        \E creator \in Accounts :
            /\ balance_of(creator) = total_supply
            /\ events = <<TransferEvent(None, Some(creator), total_supply)>>

\* C18 (facade is a pass-through): every facade operation sent by an account
\* A returns the same result and leaves the ledger in the same state as the
\* ledger operation called by A itself; token_transfer(to, v) by A debits A,
\* token_approve(s, v) by A sets allowance(A, s).
C18_FacadePassThrough ==
    [][\A origin \in Origins :
          /\ token_total_supply = total_supply
          /\ \A a \in Accounts : token_balance_of(a) = balance_of(a)
          /\ \A o, sp \in Accounts : token_allowance(o, sp) = allowance(o, sp)
          /\ \A to \in Accounts, value \in Amount :
                token_transfer(origin, to, value)
                => transfer(origin, to, value)
          /\ \A spender \in Accounts, value \in Amount :
                token_approve(origin, spender, value)
                => approve(origin, spender, value)
          /\ \A from, to \in Accounts, value \in Amount :
                token_transfer_from(origin, from, to, value)
                => transfer_from(origin, from, to, value)]_vars

\* C19 (token address): get_token_address() returns the address of the ledger
\* the facade was constructed with.
C19_TokenAddress == get_token_address = token

\* C20 (no-op transfer): a transfer(to, amount) with caller = to or
\* amount = 0 succeeds and changes no balance, no allowance and not the total
\* supply, whatever the caller holds.
C20_TransferNoOp ==
    [][returned'.op = "transfer" =>
       \A caller, to \in Accounts, value \in Amount :
          ( /\ caller = to \/ value = 0
            /\ transfer(caller, to, value) )
          => /\ returned'.result = Ok
             /\ balances' = balances
             /\ allowances' = allowances
             /\ total_supply' = total_supply]_vars

\* C20 witness: a transfer has returned at the early return of line 216 while
\* one unit exists, so that some account holds less than any amount above 0
C20_Witness ==
    /\ returned.op = "transfer"
    /\ returned.ret = 216
    /\ total_supply = 1

\* C21 as stated (authorized source): whenever a step lowers balance_of(X),
\* the step is a transfer or a burn called by X, or a transfer_from with
\* from = X called by a spender S whose allowance(X, S) before the step was at
\* least the amount by which the balance of X fell.
C21_AuthorizedSource_AsStated ==
    [][balances' # balances =>
       \A X \in Accounts :
          balance_of(X)' < balance_of(X)
          => \/ \E to \in Accounts, value \in Amount : transfer(X, to, value)
             \/ \E value \in Amount : burn(X, value)
             \/ \E S, to \in Accounts, value \in Amount :
                  /\ transfer_from(S, X, to, value)
                  /\ allowance(X, S) >= balance_of(X) - balance_of(X)']_vars

\* C21 (amended): whenever a step lowers balance_of(X), the step is a
\* transfer, a burn or a transfer_from with from = X called by X itself, or a
\* transfer_from with from = X called by another account S whose
\* allowance(X, S) before the step was at least the amount by which the
\* balance of X fell.
C21_AuthorizedSource ==
    [][balances' # balances =>
       \A X \in Accounts :
          balance_of(X)' < balance_of(X)
          => \/ \E to \in Accounts, value \in Amount : transfer(X, to, value)
             \/ \E value \in Amount : burn(X, value)
             \/ \E to \in Accounts, value \in Amount :
                  transfer_from(X, X, to, value)
             \/ \E S \in Accounts \ {X}, to \in Accounts, value \in Amount :
                  /\ transfer_from(S, X, to, value)
                  /\ allowance(X, S) >= balance_of(X) - balance_of(X)']_vars

\* C21 witness: a spender has moved the owner's whole balance and used up the
\* allowance
C21_Witness ==
    /\ returned.op = "transfer_from"
    /\ returned.delegated
    /\ returned.ret = 230
    /\ \E a \in Accounts : balance_of(a) = MaxAmount
    /\ \A o, sp \in Accounts : allowance(o, sp) = 0

\* C22 (transfer_from by the owner): a transfer_from(from, to, amount) called
\* by `from` itself changes no allowance and has the result and the balance
\* effect of transfer(to, amount) called by `from` (a no-op for from = to or
\* amount = 0, InsufficientBalance below the amount, the move otherwise); it
\* succeeds although allowance(from, from) is 0.
C22_TransferFromSelf ==
    [][returned'.op = "transfer_from" =>
       \A from, to \in Accounts, value \in Amount :
          transfer_from(from, from, to, value)
          => /\ allowances' = allowances
             /\ total_supply' = total_supply
             /\ returned'.result = _transfer(from, to, value).result
             /\ balances' = _transfer(from, to, value).balances
             /\ IF from = to \/ value = 0
                THEN returned'.result = Ok /\ balances' = balances
                ELSE IF balance_of(from) < value
                THEN returned'.result = InsufficientBalance
                     /\ balances' = balances
                ELSE /\ allowance(from, from) = 0
                     /\ returned'.result = Ok
                     /\ balances' = [balances EXCEPT ![from] = @ - value,
                                                     ![to] = @ + value]]_vars

\* C22 witness: an owner has moved its whole balance with transfer_from while
\* no allowance stands
C22_Witness ==
    /\ returned.op = "transfer_from"
    /\ ~returned.delegated
    /\ returned.ret = 230
    /\ \E a \in Accounts : balance_of(a) = MaxAmount
    /\ \A o, sp \in Accounts : allowance(o, sp) = 0

\* C23 (self-allowance stays zero): approve, increase_allowance and
\* decrease_allowance with spender = caller succeed and change no state, and
\* allowance(a, a) = 0 for every account a in every reachable state.
C23_SelfAllowanceZero ==
    /\ [](\A a \in Accounts : allowance(a, a) = 0)
    /\ [][returned'.op \in {"approve", "increase_allowance",
                            "decrease_allowance"} =>
          \A a \in Accounts, value \in Amount :
             ( \/ approve(a, a, value)
               \/ increase_allowance(a, a, value)
               \/ decrease_allowance(a, a, value) )
             => /\ returned'.result = Ok
                /\ UNCHANGED <<total_supply, balances, allowances, metadata,
                               events>>]_vars

\* C23 witness: a self-approval has returned at line 111 while an allowance
\* for another spender stands
C23_Witness ==
    /\ returned.op = "approve"
    /\ returned.ret = 111
    /\ \E owner, spender \in Accounts : allowance(owner, spender) = MaxAmount

\* C24 (allowance spent on a self-directed transfer_from): a
\* transfer_from(from, to, amount) with from = to, called by a spender other
\* than `from` whose allowance covers amount, succeeds, lowers
\* allowance(from, caller) by amount and changes no balance, also when
\* balance_of(from) is below amount.
C24_SelfDirectedSpend ==
    [][returned'.op = "transfer_from" =>
       \A caller, from \in Accounts, value \in Amount :
          ( /\ caller # from
            /\ allowance(from, caller) >= value
            /\ transfer_from(caller, from, from, value) )
          => /\ returned'.result = Ok
             /\ allowances' = [allowances EXCEPT ![<<from, caller>>] = @ - value]
             /\ balances' = balances
             /\ total_supply' = total_supply]_vars

\* C24 witness: a spender's transfer_from has returned at the early return of
\* line 216 in a ledger that holds no value at all
C24_Witness ==
    /\ returned.op = "transfer_from"
    /\ returned.delegated
    /\ returned.ret = 216
    /\ total_supply = 0
    /\ \E owner, spender \in Accounts :
          owner # spender /\ allowance(owner, spender) = 1

\* the results of the checked_sub / checked_add branches (lines 100, 224, 227)
ArithmeticErrors ==
    {Custom("arithmetic underflow"), Custom("arithmetic overflow")}

\* C25 (arithmetic branches unreachable): in every reachable state a transfer
\* or transfer_from has failed only with InsufficientBalance or
\* InsufficientAllowance: it never returns from the underflow branches
\* (lines 100, 224) nor from the overflow branch of line 227, where the
\* sender's new balance is written and the recipient's is not.
C25_NoArithmeticFailure ==
    returned.op \in {"transfer", "transfer_from"} =>
        /\ returned.result \in {Ok, InsufficientBalance, InsufficientAllowance}
        /\ returned.result \notin ArithmeticErrors
        /\ returned.ret \notin {100, 224, 227}

\* C25 witness: a transfer has brought the recipient's balance to the top of
\* the amount range
C25_Witness ==
    /\ returned.op \in {"transfer", "transfer_from"}
    /\ returned.ret = 230
    /\ \E a \in Accounts : balance_of(a) = MaxAmount

\* C26 (spending bound): for an owner and a spender other than the owner, in
\* every state after the owner's approve(spender, v), the sum of the amounts
\* of the spender's successful transfer_from(from = owner, ...) calls since
\* the most recent such approve is at most v plus the sum of the deltas of the
\* owner's successful increase_allowance(spender, ...) calls since then.
C26_SpendingBound ==
    spending.approved => spending.spent <= spending.granted

\* C26 witness: the spender has spent the whole of a grant that an
\* increase_allowance raised above the approved value
C26_Witness ==
    /\ returned.op = "transfer_from"
    /\ returned.result = Ok
    /\ spending.approved
    /\ spending.granted = MaxGranted
    /\ spending.spent = spending.granted

\* C27 (third parties cannot touch an allowance): whenever a step changes
\* allowance(owner, spender), the step is an approve, increase_allowance or
\* decrease_allowance for that spender called by the owner, or a
\* transfer_from with from = owner called by the spender; a transfer, mint
\* or burn by anyone changes no allowance.
C27_AllowanceAuthority ==
    [][/\ returned'.op \in {"transfer", "mint", "burn"}
          => allowances' = allowances
       /\ allowances' # allowances =>
          \A owner, spender \in Accounts :
             allowance(owner, spender)' # allowance(owner, spender)
             => \/ \E value \in Amount :
                     \/ approve(owner, spender, value)
                     \/ increase_allowance(owner, spender, value)
                     \/ decrease_allowance(owner, spender, value)
                \/ \E to \in Accounts, value \in Amount :
                     transfer_from(spender, owner, to, value)]_vars

\* C27 witness: an increase_allowance has raised one allowance while the
\* reverse pair and a third account's pair hold other values
C27_Witness ==
    /\ returned.op = "increase_allowance"
    /\ returned.ret = 130
    /\ \E a, b, c \in Accounts :
          /\ a # b /\ b # c /\ a # c
          /\ allowance(a, b) = MaxAmount
          /\ allowance(b, a) = 1
          /\ allowance(c, b) = 0

====
